---- MODULE Spec2Model ----
(***************************************************************************)
(* Model of app/jobs/buildPackage.js: the tag filter (filterRemoteTags),   *)
(* the release reconciliation (updateReleaseRecords) and the build job     *)
(* scheduling (addReleaseJobs), driven by buildPackage.                    *)
(*                                                                         *)
(* Strings that the code inspects (tags, versions, job ids) are sequences  *)
(* of one-character strings, so that startsWith, the regular expressions   *)
(* and the version parser work on the characters.                          *)
(***************************************************************************)
EXTENDS Naturals, Sequences, FiniteSets, Bags, TLC

VARIABLES
  store,        \* release store: a bag of Release rows
  jobs,         \* queues.main: a bag of jobs
  invalidTags,  \* PackageExtra: the persisted invalid tags of the package
  run           \* per caller: the locals of its buildPackage call

vars == <<store, jobs, invalidTags, run>>

-----------------------------------------------------------------------------
(* Characters and strings *)

Uppers == <<"A","B","C","D","E","F","G","H","I","J","K","L","M",
            "N","O","P","Q","R","S","T","U","V","W","X","Y","Z">>
Lowers == <<"a","b","c","d","e","f","g","h","i","j","k","l","m",
            "n","o","p","q","r","s","t","u","v","w","x","y","z">>
Digits == {"0","1","2","3","4","5","6","7","8","9"}

Range(s) == {s[k] : k \in 1..Len(s)}

toLowerChar(c) ==
  IF \E k \in 1..26 : Uppers[k] = c
    THEN Lowers[CHOOSE k \in 1..26 : Uppers[k] = c]
    ELSE c

toLowerCase(s) == [k \in 1..Len(s) |-> toLowerChar(s[k])]

startsWith(s, prefix) ==
  /\ Len(prefix) <= Len(s)
  /\ SubSeq(s, 1, Len(prefix)) = prefix

\* RegExp.prototype.test for the patterns used here: literal characters with
\* an optional leading ^ and an optional trailing $, flag "i" when ignoreCase.
RegExpTest(source, ignoreCase, s) ==
  LET atStart == Len(source) > 0 /\ source[1] = "^"
      atEnd   == Len(source) > 0 /\ source[Len(source)] = "$"
      lit0    == SubSeq(source, IF atStart THEN 2 ELSE 1,
                        IF atEnd THEN Len(source) - 1 ELSE Len(source))
      lit     == IF ignoreCase THEN toLowerCase(lit0) ELSE lit0
      str     == IF ignoreCase THEN toLowerCase(s) ELSE s
      n       == Len(lit)
  IN  \E k \in 1..(Len(str) + 1) :
        /\ k + n - 1 <= Len(str)
        /\ SubSeq(str, k, k + n - 1) = lit
        /\ atStart => k = 1
        /\ atEnd => k + n - 1 = Len(str)

\* The null of getVersionFromTag and the unset gitTagPrefix / gitTagIgnore
\* (undefined and "" are both falsy).
Null == <<>>

-----------------------------------------------------------------------------
(* utils/semver: getVersionFromTag *)

PrereleaseChars ==
  Digits \cup Range(Uppers) \cup Range(Lowers) \cup {".", "-"}

IsNumber(s) == Len(s) > 0 /\ Range(s) \subseteq Digits

\* major.minor.patch with an optional -prerelease
IsSemver(s) ==
  \E d1, d2 \in 1..Len(s) :
    /\ d1 < d2
    /\ s[d1] = "." /\ s[d2] = "."
    /\ IsNumber(SubSeq(s, 1, d1 - 1))
    /\ IsNumber(SubSeq(s, d1 + 1, d2 - 1))
    /\ \E e \in (d2 + 1)..Len(s) :
         /\ IsNumber(SubSeq(s, d2 + 1, e))
         /\ \/ e = Len(s)
            \/ /\ e + 1 < Len(s)
               /\ s[e + 1] = "-"
               /\ Range(SubSeq(s, e + 2, Len(s))) \subseteq PrereleaseChars

\* The part of a tag after its last "/" (a tag namespace such as releases/).
StripNamespace(s) ==
  IF "/" \in Range(s)
    THEN LET k == CHOOSE j \in 1..Len(s) :
                    s[j] = "/" /\ \A m \in (j + 1)..Len(s) : s[m] # "/"
         IN  SubSeq(s, k + 1, Len(s))
    ELSE s

StripV(s) == IF Len(s) > 0 /\ s[1] \in {"v", "V"} THEN Tail(s) ELSE s

getVersionFromTag(tag) ==
  LET v == StripV(StripNamespace(tag))
  IN  IF IsSemver(v) THEN v ELSE Null

-----------------------------------------------------------------------------
(* filterRemoteTags *)

\* Reverse that leaves the order as it is
ReverseNot(s) == s

\* Array.prototype.reverse
Reverse(s) == [k \in 1..Len(s) |-> s[Len(s) + 1 - k]]

\* const upmRe = /(^upm\/|(_|-)upm$)/i
upmReTest(tag) ==
  \/ RegExpTest(<<"^","u","p","m","/">>, TRUE, tag)
  \/ RegExpTest(<<"_","u","p","m","$">>, TRUE, tag)
  \/ RegExpTest(<<"-","u","p","m","$">>, TRUE, tag)

\* if (gitTagPrefix) tags = tags.filter(x => x.tag.startsWith(gitTagPrefix))
FilterPrefix(tags, gitTagPrefix) ==
  LET keep(x) == startsWith(x.tag, gitTagPrefix)
  IN  IF gitTagPrefix # Null THEN SelectSeq(tags, keep) ELSE tags

\* tags = tags.filter(x => getVersionFromTag(x.tag) != null)
FilterSemver(tags) ==
  LET keep(x) == getVersionFromTag(x.tag) # Null
  IN  SelectSeq(tags, keep)

\* if (gitTagIgnore) tags = tags.filter(x => !ignoreRe.test(x.tag))
FilterIgnore(tags, gitTagIgnore) ==
  LET keep(x) == ~RegExpTest(gitTagIgnore, TRUE, x.tag)
  IN  IF gitTagIgnore # Null THEN SelectSeq(tags, keep) ELSE tags

\* const validTags = tags.filter(x => upmRe.test(x.tag))
FilterUpm(tags) ==
  LET keep(x) == upmReTest(x.tag)
  IN  SelectSeq(tags, keep)

\* for (const element of tags) { if (!versionSet.has(version)) {...} }
RECURSIVE RemoveDuplications(_, _, _)
RemoveDuplications(tags, versionSet, validTags) ==
  IF tags = <<>> THEN validTags
  ELSE LET element == Head(tags)
           version == getVersionFromTag(element.tag)
       IN  IF version \notin versionSet
             THEN RemoveDuplications(Tail(tags), versionSet \cup {version},
                                     Append(validTags, element))
             ELSE RemoveDuplications(Tail(tags), versionSet, validTags)

\* filterRemoteTags with the version set not seeded by the UPM tags
filterRemoteTagsUnseeded(remoteTags, gitTagIgnore, gitTagPrefix) ==
  LET tags       == FilterIgnore(FilterSemver(FilterPrefix(remoteTags, gitTagPrefix)),
                                 gitTagIgnore)
      validTags  == FilterUpm(tags)
  IN  RemoveDuplications(tags, {}, validTags)

\* filterRemoteTags with the UPM tags taken from the tags before the prefix
\* and ignore filters
filterRemoteTagsUpmFirst(remoteTags, gitTagIgnore, gitTagPrefix) ==
  LET tags       == FilterIgnore(FilterSemver(FilterPrefix(remoteTags, gitTagPrefix)),
                                 gitTagIgnore)
      validTags  == FilterUpm(FilterSemver(remoteTags))
      versionSet == {getVersionFromTag(validTags[k].tag) : k \in 1..Len(validTags)}
  IN  RemoveDuplications(tags, versionSet, validTags)

filterRemoteTags(remoteTags, gitTagIgnore, gitTagPrefix) ==
  LET tags       == FilterIgnore(FilterSemver(FilterPrefix(remoteTags, gitTagPrefix)),
                                 gitTagIgnore)
      validTags  == FilterUpm(tags)
      versionSet == {getVersionFromTag(validTags[k].tag) : k \in 1..Len(validTags)}
  IN  RemoveDuplications(tags, versionSet, validTags)

\* lodash difference(remoteTags, validTags)
difference(array, values) ==
  LET keep(x) == x \notin Range(values)
  IN  SelectSeq(array, keep)

-----------------------------------------------------------------------------
(* models/common: ReleaseState, ReleaseReason, RetryableReleaseReason *)

ReleaseState == [Pending |-> "Pending", Succeeded |-> "Succeeded", Failed |-> "Failed"]

\* reason codes as stored on a release, and the enum items they map to
ReasonCodes == {0, 1, 2}

ReleaseReasonGet(code) ==
  CASE code = 0 -> "None"
    [] code = 1 -> "ConnectionTime"
    [] code = 2 -> "InvalidManifest"

RetryableReleaseReason == {"ConnectionTime"}

-----------------------------------------------------------------------------
(* config, models/release, jobs/removeRelease, queues/core *)

\* config.jobs.buildRelease
BuildReleaseKey == <<"r","e","l">>
BuildReleaseDelay == 2

\* Release.fetchAll(packageName): the rows of the package, in any order
fetchAllResults(packageName) ==
  LET rows == {r \in BagToSet(store) : r.packageName = packageName}
      n    == BagCardinality(store)
      count(s, r) == Cardinality({k \in 1..n : s[k] = r})
  IN  {s \in [1..n -> rows] : \A r \in rows : count(s, r) = CopiesIn(r, store)}

\* Release.fetchOne(packageName, version): the rows it may return
fetchOneResults(packageName, version) ==
  {r \in BagToSet(store) : r.packageName = packageName /\ r.version = version}

\* Release.save(record): the stored row, with the default state and reason
savedRelease(record) ==
  [packageName |-> record.packageName, version |-> record.version,
   commit |-> record.commit, tag |-> record.tag,
   state |-> ReleaseState.Pending, reason |-> 0]

\* removeRelease(packageName, version): the store without that release
storeWithout(packageName, version) ==
  LET keep == {r \in BagToSet(store) :
                 ~(r.packageName = packageName /\ r.version = version)}
  IN  [r \in keep |-> CopiesIn(r, store)]

\* config.jobs.buildRelease.key + ":" + rel.packageName + ":" + rel.version
JobId(rel) == BuildReleaseKey \o <<":">> \o rel.packageName \o <<":">> \o rel.version

\* queue.getJob(jobId): is a job returned
getJob(jobId) == \E j \in BagToSet(jobs) : j.id = jobId

\* the job addJob creates: it has not failed
NewJob(jobId) == [id |-> jobId, failed |-> FALSE]

-----------------------------------------------------------------------------
(* The callers of buildPackage and their locals *)

Procs == {1, 2}
SeqProcs == {1}

NoPackage == [name |-> <<>>, gitTagPrefix |-> Null, gitTagIgnore |-> Null]

IdleRun ==
  [pc |-> "idle", pkg |-> NoPackage, remoteTags |-> <<>>, validTags |-> <<>>,
   invalidTags |-> <<>>, fetched |-> <<>>, k |-> 0, releases |-> <<>>,
   i |-> 0, jobId |-> Null, now |-> 0, delay |-> 0,
   \* history of the call: addJob calls made, rows removed, rows saved, and,
   \* for a call repeated with the same inputs, what the call before it saw
   \* and did
   log |-> <<>>, removed |-> {}, saved |-> {}, repeat |-> FALSE,
   startStore |-> EmptyBag,
   prevReleases |-> <<>>, prevLog |-> <<>>, prevRemoved |-> {},
   \* for a call made again after a call that threw: the store and the queue
   \* before the first of the calls that threw
   retry |-> FALSE, originStore |-> EmptyBag, originJobs |-> EmptyBag]

Quiet == \A p \in Procs : run[p].pc = "idle"

\* buildPackage up to its first store call: the package is loaded, the
\* remote tags are listed, filtered and reversed, the invalid tags computed
Called(locals, pkg, remoteTags) ==
  LET validTags == Reverse(filterRemoteTags(remoteTags, pkg.gitTagIgnore,
                                            pkg.gitTagPrefix))
  IN  [locals EXCEPT !.pc = "setInvalidTags", !.pkg = pkg,
                     !.remoteTags = remoteTags,
                     !.validTags = validTags,
                     !.invalidTags = difference(remoteTags, validTags),
                     !.startStore = store]

BeginRun(p, pkg, remoteTags) ==
  run' = [run EXCEPT ![p] = Called(IdleRun, pkg, remoteTags)]

\* SetInvalidTags with the return for no valid tag taken before the call of
\* PackageExtra.setInvalidTags
SetInvalidTagsAfterReturn(p) ==
  /\ run[p].pc = "setInvalidTags"
  /\ invalidTags' = IF Len(run[p].validTags) = 0 THEN invalidTags
                                                 ELSE run[p].invalidTags
  /\ run' = [run EXCEPT ![p].pc =
               IF Len(run[p].validTags) = 0 THEN "done" ELSE "fetchAll"]
  /\ UNCHANGED <<store, jobs>>

\* SetInvalidTags without the return for no valid tag
SetInvalidTagsNoReturn(p) ==
  /\ run[p].pc = "setInvalidTags"
  /\ invalidTags' = run[p].invalidTags
  /\ run' = [run EXCEPT ![p].pc = "fetchAll"]
  /\ UNCHANGED <<store, jobs>>

\* await PackageExtra.setInvalidTags(name, invalidTags); return when there
\* is no valid tag, else on to updateReleaseRecords
SetInvalidTags(p) ==
  /\ run[p].pc = "setInvalidTags"
  /\ invalidTags' = run[p].invalidTags
  /\ run' = [run EXCEPT ![p].pc =
               IF Len(run[p].validTags) = 0 THEN "done" ELSE "fetchAll"]
  /\ UNCHANGED <<store, jobs>>

\* updateReleaseRecords: let releases = await Release.fetchAll(packageName)
FetchAll(p) ==
  /\ run[p].pc = "fetchAll"
  /\ \E fetched \in fetchAllResults(run[p].pkg.name) :
       run' = [run EXCEPT ![p].fetched = fetched, ![p].k = 1,
                          ![p].pc = IF Len(fetched) = 0 THEN "fetchOne" ELSE "evict"]
  /\ UNCHANGED <<store, jobs, invalidTags>>

\* IsStaleFailed with the tags compared by name only
IsStaleFailedByTag(rel, remoteTags) ==
  /\ rel.state = ReleaseState.Failed
  /\ ~\E j \in 1..Len(remoteTags) : remoteTags[j].tag = rel.tag

\* rel.state == Failed && !remoteTags.find(x => x.tag == rel.tag && x.commit == rel.commit)
\* (the remoteTags of updateReleaseRecords are the valid tags)
IsStaleFailed(rel, remoteTags) ==
  /\ rel.state = ReleaseState.Failed
  /\ ~\E j \in 1..Len(remoteTags) :
        remoteTags[j].tag = rel.tag /\ remoteTags[j].commit = rel.commit

\* the loop over the fetched releases moves on, or ends and the loop over the
\* tags starts
AfterEvict(r) ==
  IF r.k < Len(r.fetched)
    THEN [r EXCEPT !.k = r.k + 1]
    ELSE [r EXCEPT !.k = 1, !.pc = "fetchOne"]

\* one iteration of the first loop that removes: await removeRelease(...)
EvictRemove(p) ==
  /\ run[p].pc = "evict"
  /\ LET rel == run[p].fetched[run[p].k]
     IN  /\ IsStaleFailed(rel, run[p].validTags)
         /\ store' = storeWithout(run[p].pkg.name, rel.version)
         /\ run' = [run EXCEPT ![p] =
                      AfterEvict([run[p] EXCEPT !.removed = @ \cup {rel}])]
  /\ UNCHANGED <<jobs, invalidTags>>

\* one iteration of the first loop that removes nothing
EvictKeep(p) ==
  /\ run[p].pc = "evict"
  /\ ~IsStaleFailed(run[p].fetched[run[p].k], run[p].validTags)
  /\ run' = [run EXCEPT ![p] = AfterEvict(run[p])]
  /\ UNCHANGED <<store, jobs, invalidTags>>

\* releases.push(release); the loop over the tags moves on, or ends and
\* addReleaseJobs(releases) starts
AfterPush(r, release) ==
  LET pushed == [r EXCEPT !.releases = Append(@, release)]
  IN  IF r.k < Len(r.validTags)
        THEN [pushed EXCEPT !.k = r.k + 1, !.pc = "fetchOne"]
        ELSE [pushed EXCEPT !.k = 1, !.i = 0, !.pc = "getJob"]

\* FetchOne that brings a release it found up to date with the remote tag
FetchOneRefresh(p) ==
  /\ run[p].pc = "fetchOne"
  /\ LET remoteTag == run[p].validTags[run[p].k]
         version   == getVersionFromTag(remoteTag.tag)
         found     == fetchOneResults(run[p].pkg.name, version)
     IN  \/ /\ found = {}
            /\ run' = [run EXCEPT ![p].pc = "save"]
            /\ store' = store
         \/ \E release \in found :
              LET fresh == [release EXCEPT !.commit = remoteTag.commit,
                                           !.tag = remoteTag.tag]
              IN  /\ store' = (store (-) SetToBag({release})) (+) SetToBag({fresh})
                  /\ run' = [run EXCEPT ![p] = AfterPush(run[p], fresh)]
  /\ UNCHANGED <<jobs, invalidTags>>

\* FetchOne without the test of its result: every tag is saved
FetchOneThenSave(p) ==
  /\ run[p].pc = "fetchOne"
  /\ run' = [run EXCEPT ![p].pc = "save"]
  /\ UNCHANGED <<store, jobs, invalidTags>>

\* let release = await Release.fetchOne(packageName, version)
FetchOne(p) ==
  /\ run[p].pc = "fetchOne"
  /\ LET remoteTag == run[p].validTags[run[p].k]
         version   == getVersionFromTag(remoteTag.tag)
         found     == fetchOneResults(run[p].pkg.name, version)
     IN  \/ /\ found = {}
            /\ run' = [run EXCEPT ![p].pc = "save"]
         \/ \E release \in found :
              run' = [run EXCEPT ![p] = AfterPush(run[p], release)]
  /\ UNCHANGED <<store, jobs, invalidTags>>

\* NewRecord with the raw tag as the version
NewRecordRawTag(packageName, remoteTag) ==
  [packageName |-> packageName, version |-> remoteTag.tag,
   commit |-> remoteTag.commit, tag |-> remoteTag.tag]

\* let record = { packageName, version, commit: remoteTag.commit, tag: remoteTag.tag }
NewRecord(packageName, remoteTag) ==
  [packageName |-> packageName, version |-> getVersionFromTag(remoteTag.tag),
   commit |-> remoteTag.commit, tag |-> remoteTag.tag]

\* if (!release) release = await Release.save(record)
Save(p) ==
  /\ run[p].pc = "save"
  /\ LET release == savedRelease(NewRecord(run[p].pkg.name,
                                           run[p].validTags[run[p].k]))
     IN  /\ store' = store (+) SetToBag({release})
         /\ run' = [run EXCEPT ![p] =
                      AfterPush([run[p] EXCEPT !.saved = @ \cup {release}], release)]
  /\ UNCHANGED <<jobs, invalidTags>>

-----------------------------------------------------------------------------
(* addReleaseJobs *)

\* the readings of the clock by new Date(), in seconds
MaxNow == 2
Nows == 1..MaxNow

\* ShouldSkip without the lookup of the job
ShouldSkipIgnoringJob(job, rel) ==
  \/ rel.state = ReleaseState.Succeeded
  \/ /\ rel.state = ReleaseState.Failed
     /\ ReleaseReasonGet(rel.reason) \notin RetryableReleaseReason

\* ShouldSkip without the test of the reason: no failed release is retried
ShouldSkipAnyFailed(job, rel) ==
  \/ job
  \/ rel.state = ReleaseState.Succeeded
  \/ rel.state = ReleaseState.Failed

\* job || rel.state == Succeeded ||
\* (rel.state == Failed && !RetryableReleaseReason.includes(reason))
ShouldSkip(job, rel) ==
  \/ job
  \/ rel.state = ReleaseState.Succeeded
  \/ /\ rel.state = ReleaseState.Failed
     /\ ReleaseReasonGet(rel.reason) \notin RetryableReleaseReason

\* dt.setSeconds(dt.getSeconds() + delay * i); delay: i == 0 ? 0 : dt
JobDelay(i, now) == IF i = 0 THEN 0 ELSE now + BuildReleaseDelay * i

\* NextI that counts every release of the list
NextIEveryRelease(i, enqueued) == i + 1

\* i after a release: i += 1 follows addJob only, continue skips it
NextI(i, enqueued) == IF enqueued THEN i + 1 ELSE i

\* the loop over the releases moves on, or ends and buildPackage returns
AfterRelease(r, enqueued) ==
  LET counted == [r EXCEPT !.i = NextI(r.i, enqueued)]
  IN  IF r.k < Len(r.releases)
        THEN [counted EXCEPT !.k = r.k + 1, !.pc = "getJob"]
        ELSE [counted EXCEPT !.pc = "done"]

\* GetJob with the job that failed completely removed from the queue and
\* taken as no job
GetJobRemovingFailed(p) ==
  /\ run[p].pc = "getJob"
  /\ LET rel    == run[p].releases[run[p].k]
         jobId  == JobId(rel)
         failed == {j \in BagToSet(jobs) : j.id = jobId /\ j.failed}
         job    == \E j \in BagToSet(jobs) : j.id = jobId /\ ~j.failed
     IN  /\ jobs' = [j \in BagToSet(jobs) \ failed |-> CopiesIn(j, jobs)]
         /\ \/ /\ ShouldSkip(job, rel)
               /\ run' = [run EXCEPT ![p] = AfterRelease(run[p], FALSE)]
            \/ /\ ~ShouldSkip(job, rel)
               /\ \E now \in (IF run[p].i = 0 THEN {0} ELSE Nows) :
                    run' = [run EXCEPT ![p].pc = "addJob", ![p].jobId = jobId,
                                       ![p].now = now,
                                       ![p].delay = JobDelay(run[p].i, now)]
  /\ UNCHANGED <<store, invalidTags>>

\* let job = await queue.getJob(jobId), then continue, or new Date() and the
\* call of addJob
GetJob(p) ==
  /\ run[p].pc = "getJob"
  /\ LET rel   == run[p].releases[run[p].k]
         jobId == JobId(rel)
     IN  \/ /\ ShouldSkip(getJob(jobId), rel)
            /\ run' = [run EXCEPT ![p] = AfterRelease(run[p], FALSE)]
         \/ /\ ~ShouldSkip(getJob(jobId), rel)
            /\ \E now \in (IF run[p].i = 0 THEN {0} ELSE Nows) :
                 run' = [run EXCEPT ![p].pc = "addJob", ![p].jobId = jobId,
                                    ![p].now = now,
                                    ![p].delay = JobDelay(run[p].i, now)]
  /\ UNCHANGED <<store, jobs, invalidTags>>

\* job = await addJob({ jobId, jobConfig, delay }); i += 1
AddJob(p) ==
  /\ run[p].pc = "addJob"
  /\ jobs' = jobs (+) SetToBag({NewJob(run[p].jobId)})
  /\ run' = [run EXCEPT ![p] =
               AfterRelease([run[p] EXCEPT
                               !.log = Append(@, [jobId |-> run[p].jobId,
                                                  delay |-> run[p].delay,
                                                  now |-> run[p].now])],
                            TRUE)]
  /\ UNCHANGED <<store, invalidTags>>

\* buildPackage has returned; its locals are gone
Finish(p) ==
  /\ run[p].pc = "done"
  /\ run' = [run EXCEPT ![p] = IdleRun]
  /\ UNCHANGED <<store, jobs, invalidTags>>

\* buildPackage is called again with the same package and the same remote
\* tags right after it returned
Restart(p) ==
  /\ run[p].pc = "done"
  /\ LET again == [IdleRun EXCEPT !.repeat = TRUE,
                                  !.prevReleases = run[p].releases,
                                  !.prevLog = run[p].log,
                                  !.prevRemoved = run[p].removed]
     IN  run' = [run EXCEPT ![p] = Called(again, run[p].pkg, run[p].remoteTags)]
  /\ UNCHANGED <<store, jobs, invalidTags>>

-----------------------------------------------------------------------------
(* The environment: the build pipeline and the queue's workers *)

\* the pipeline sets the outcome of a release
PipelineSetState(rel, state, reason) ==
  /\ Quiet
  /\ BagIn(rel, store)
  /\ <<rel.state, rel.reason>> # <<state, reason>>
  /\ store' = (store (-) SetToBag({rel}))
                (+) SetToBag({[rel EXCEPT !.state = state, !.reason = reason]})
  /\ UNCHANGED <<jobs, invalidTags, run>>

\* a job leaves the queue
QueueRemoveJob(job) ==
  /\ Quiet
  /\ BagIn(job, jobs)
  /\ jobs' = jobs (-) SetToBag({job})
  /\ UNCHANGED <<store, invalidTags, run>>

Outcomes ==
  {<<ReleaseState.Succeeded, 0>>, <<ReleaseState.Failed, 1>>, <<ReleaseState.Failed, 2>>}

Environment ==
  \/ \E rel \in BagToSet(store), o \in Outcomes : PipelineSetState(rel, o[1], o[2])
  \/ \E job \in BagToSet(jobs) : QueueRemoveJob(job)

-----------------------------------------------------------------------------
(* The remote tags and the package *)

TagUpm102  == <<"u","p","m","/","1",".","0",".","2">>
TagUpmV102 == <<"u","p","m","/","v","1",".","0",".","2">>
Tag100     == <<"1",".","0",".","0">>

PkgName == <<"p","k","g">>
ThePackage == [name |-> PkgName, gitTagPrefix |-> Null, gitTagIgnore |-> Null]

RemoteTagUniverse ==
  {[tag |-> TagUpm102, commit |-> "c1"], [tag |-> TagUpm102, commit |-> "c2"],
   [tag |-> TagUpmV102, commit |-> "c1"], [tag |-> Tag100, commit |-> "c1"]}

MaxTags == 3

\* the lists a remote can return: no two refs of the same name
TagLists(universe, maxLen) ==
  {s \in UNION {[1..n -> universe] : n \in 0..maxLen} :
     \A a, b \in 1..Len(s) : a # b => s[a].tag # s[b].tag}

\* buildPackage(name) is called
Start(p) ==
  /\ run[p].pc = "idle"
  /\ \E remoteTags \in TagLists(RemoteTagUniverse, MaxTags) :
       BeginRun(p, ThePackage, remoteTags)
  /\ UNCHANGED <<store, jobs, invalidTags>>

BuildPackage(p) ==
  \/ Start(p) \/ SetInvalidTags(p)
  \/ FetchAll(p) \/ EvictRemove(p) \/ EvictKeep(p) \/ FetchOne(p) \/ Save(p)
  \/ GetJob(p) \/ AddJob(p)
  \/ Finish(p) \/ Restart(p)

Init ==
  /\ store = EmptyBag
  /\ jobs = EmptyBag
  /\ invalidTags = <<>>
  /\ run = [p \in Procs |-> IdleRun]

Next ==
  \/ \E p \in SeqProcs : BuildPackage(p)
  \/ Environment

Spec == Init /\ [][Next]_vars

-----------------------------------------------------------------------------
(* filterRemoteTags on its own: buildPackage up to setInvalidTags, over a   *)
(* wider set of tags, prefixes and ignore patterns                          *)

Tag102        == <<"1",".","0",".","2">>
TagV102       == <<"v","1",".","0",".","2">>
TagUPMV102    == <<"U","P","M","/","v","1",".","0",".","2">>
Tag100Upm     == <<"1",".","0",".","0","-","u","p","m">>
Tag102Master  == <<"1",".","0",".","2","-","m","a","s","t","e","r">>
TagPatch      == <<"p","a","t","c","h">>
Tag080Preview == <<"0",".","8",".","0","-","p","r","e","v","i","e","w">>
TagRel081Preview ==
  <<"r","e","l","e","a","s","e","s","/","0",".","8",".","1","-","p","r","e","v","i","e","w">>

FilterTagUniverse ==
  {[tag |-> Tag102, commit |-> "c1"], [tag |-> TagV102, commit |-> "c2"],
   [tag |-> TagUpm102, commit |-> "c3"], [tag |-> TagUPMV102, commit |-> "c4"],
   [tag |-> Tag100, commit |-> "c5"], [tag |-> Tag100Upm, commit |-> "c6"],
   [tag |-> Tag102Master, commit |-> "c7"], [tag |-> TagPatch, commit |-> "c8"]}

\* the list of the test "simple"
SimpleTags ==
  <<[tag |-> Tag102, commit |-> "0000010"], [tag |-> TagPatch, commit |-> "0000009"],
    [tag |-> Tag100, commit |-> "0000008"], [tag |-> Tag080Preview, commit |-> "0000006"],
    [tag |-> TagRel081Preview, commit |-> "0000005"]>>

MaxFilterTags == 3

FilterPrefixes == {Null, <<"v">>, <<"u","p","m","/">>}
FilterIgnores == {Null, <<"-","m","a","s","t","e","r","$">>, <<"^","u","p","m","/","v">>}

FilterPackages ==
  {[name |-> PkgName, gitTagPrefix |-> pre, gitTagIgnore |-> ign] :
     pre \in FilterPrefixes, ign \in FilterIgnores}

StartFilter(p) ==
  /\ run[p].pc = "idle"
  /\ \E pkg \in FilterPackages :
       \E remoteTags \in TagLists(FilterTagUniverse, MaxFilterTags) \cup {SimpleTags} :
         BeginRun(p, pkg, remoteTags)
  /\ UNCHANGED <<store, jobs, invalidTags>>

NextFilter == \E p \in SeqProcs : StartFilter(p) \/ SetInvalidTags(p)

SpecFilter == Init /\ [][NextFilter]_vars

-----------------------------------------------------------------------------
(* addReleaseJobs on its own: called with a list of releases of the store,  *)
(* over any queue, and called again with the same list                      *)

Tag200 == <<"2",".","0",".","0">>

SchedVersions == {Tag102, Tag100, Tag200}

SchedReleases ==
  {[packageName |-> PkgName, version |-> v, commit |-> "c1", tag |-> v,
    state |-> o[1], reason |-> o[2]] :
     v \in SchedVersions, o \in Outcomes \cup {<<ReleaseState.Pending, 0>>}}

MaxReleases == 3

\* lists of releases: one row per version, a row may occur more than once
ReleaseLists ==
  {s \in UNION {[1..n -> SchedReleases] : n \in 1..MaxReleases} :
     \A a, b \in 1..Len(s) : s[a].version = s[b].version => s[a] = s[b]}

InitSched ==
  /\ invalidTags = <<>>
  /\ \E releases \in ReleaseLists :
       /\ store = SetToBag(Range(releases))
       /\ run = [p \in Procs |->
                   IF p \in SeqProcs
                     THEN [IdleRun EXCEPT !.pc = "getJob", !.pkg = ThePackage,
                                          !.releases = releases, !.k = 1]
                     ELSE IdleRun]
  /\ \E queued \in SUBSET SchedVersions :
       jobs = SetToBag({NewJob(JobId([packageName |-> PkgName, version |-> v])) :
                          v \in queued})

\* addReleaseJobs(releases) is called again
ScheduleAgain(p) ==
  /\ run[p].pc = "done"
  /\ run' = [run EXCEPT ![p].pc = "getJob", ![p].k = 1, ![p].i = 0,
                        ![p].repeat = TRUE, ![p].prevReleases = run[p].releases,
                        ![p].prevLog = run[p].log, ![p].log = <<>>]
  /\ UNCHANGED <<store, jobs, invalidTags>>

NextSched == \E p \in SeqProcs : GetJob(p) \/ AddJob(p) \/ ScheduleAgain(p)

SpecSched == InitSched /\ [][NextSched]_vars

-----------------------------------------------------------------------------
(* Two calls of buildPackage for one package at the same time, over a store *)
(* keyed by (packageName, version) and a queue keyed by the job id          *)

\* Release.save on a store that keeps a row per call
saveAppended(release) == store (+) SetToBag({release})

\* Release.save(record) on a store keyed by (packageName, version): the store
\* after the call, the row of the key is the saved one
saveKeyed(release) ==
  storeWithout(release.packageName, release.version) (+) SetToBag({release})

\* addJob on a queue that keeps a job per call
addJobAppended(jobId) == jobs (+) SetToBag({NewJob(jobId)})

\* addJob({ jobId, ... }) on a queue keyed by the job id: the queue after
\* the call, a job whose id is in the queue is not added again
addJobKeyed(jobId) ==
  IF getJob(jobId) THEN jobs ELSE jobs (+) SetToBag({NewJob(jobId)})

\* if (!release) release = await Release.save(record), the store keyed:
\* the call returns, or the store rejects the key it holds and the call
\* throws
SaveKeyed(p) ==
  /\ run[p].pc = "save"
  /\ LET release == savedRelease(NewRecord(run[p].pkg.name,
                                           run[p].validTags[run[p].k]))
     IN  \/ /\ store' = saveKeyed(release)
            /\ run' = [run EXCEPT ![p] =
                         AfterPush([run[p] EXCEPT !.saved = @ \cup {release}],
                                   release)]
         \/ /\ fetchOneResults(release.packageName, release.version) # {}
            /\ store' = store
            /\ run' = [run EXCEPT ![p] = IdleRun]
  /\ UNCHANGED <<jobs, invalidTags>>

\* job = await addJob({ jobId, jobConfig, delay }); i += 1, the queue keyed:
\* the call returns, or the queue rejects the id it holds and the call throws
AddJobKeyed(p) ==
  /\ run[p].pc = "addJob"
  /\ \/ /\ jobs' = addJobKeyed(run[p].jobId)
        /\ run' = [run EXCEPT ![p] =
                     AfterRelease([run[p] EXCEPT
                                     !.log = Append(@, [jobId |-> run[p].jobId,
                                                        delay |-> run[p].delay,
                                                        now |-> run[p].now])],
                                  TRUE)]
     \/ /\ getJob(run[p].jobId)
        /\ jobs' = jobs
        /\ run' = [run EXCEPT ![p] = IdleRun]
  /\ UNCHANGED <<store, invalidTags>>

ConcTagUniverse ==
  {[tag |-> TagUpm102, commit |-> "c1"], [tag |-> Tag100, commit |-> "c1"]}

MaxConcTags == 2

\* a release of 1.0.0 that failed at a commit the tag has left
StaleFailed100 ==
  [packageName |-> PkgName, version |-> Tag100, commit |-> "c0", tag |-> Tag100,
   state |-> ReleaseState.Failed, reason |-> 1]

StartConc(p) ==
  /\ run[p].pc = "idle"
  /\ \E remoteTags \in TagLists(ConcTagUniverse, MaxConcTags) :
       BeginRun(p, ThePackage, remoteTags)
  /\ UNCHANGED <<store, jobs, invalidTags>>

BuildPackageConc(p) ==
  \/ StartConc(p) \/ SetInvalidTags(p)
  \/ FetchAll(p) \/ EvictRemove(p) \/ EvictKeep(p) \/ FetchOne(p) \/ SaveKeyed(p)
  \/ GetJob(p) \/ AddJobKeyed(p)
  \/ Finish(p)

InitConc ==
  /\ store \in {EmptyBag, SetToBag({StaleFailed100})}
  /\ jobs = EmptyBag
  /\ invalidTags = <<>>
  /\ run = [p \in Procs |-> IdleRun]

NextConc == \E p \in Procs : BuildPackageConc(p)

SpecConc == InitConc /\ [][NextConc]_vars

-----------------------------------------------------------------------------
(* A store or queue call of buildPackage throws, and buildPackage is called *)
(* again later with the remote unchanged                                    *)

\* the jobs the call has added so far
AddedJobs(p) == SetToBag({NewJob(run[p].log[e].jobId) : e \in 1..Len(run[p].log)})

\* the awaited call the run is at rejects: buildPackage throws, its locals are
\* gone, what it has written stays; then buildPackage(name) is called again
\* and lists the same remote tags
AbortRetry(p) ==
  /\ run[p].pc \notin {"idle", "done"}
  /\ LET again == [IdleRun EXCEPT
                     !.retry = TRUE,
                     !.originStore = IF run[p].retry THEN run[p].originStore
                                                     ELSE run[p].startStore,
                     !.originJobs = IF run[p].retry THEN run[p].originJobs
                                                    ELSE jobs (-) AddedJobs(p)]
     IN  run' = [run EXCEPT ![p] = Called(again, run[p].pkg, run[p].remoteTags)]
  /\ UNCHANGED <<store, jobs, invalidTags>>

BuildPackageAbort(p) ==
  \/ Start(p) \/ SetInvalidTags(p)
  \/ FetchAll(p) \/ EvictRemove(p) \/ EvictKeep(p) \/ FetchOne(p) \/ Save(p)
  \/ GetJob(p) \/ AddJob(p)
  \/ Finish(p) \/ AbortRetry(p)

NextAbort ==
  \/ \E p \in SeqProcs : BuildPackageAbort(p)
  \/ Environment

SpecAbort == Init /\ [][NextAbort]_vars

-----------------------------------------------------------------------------
(* buildPackage over a remote that holds a plain tag and UPM tags of one    *)
(* version                                                                  *)

EvictTagUniverse ==
  {[tag |-> Tag102, commit |-> "c1"], [tag |-> TagUpm102, commit |-> "c2"],
   [tag |-> Tag100, commit |-> "c1"], [tag |-> TagUpmV102, commit |-> "c2"]}

MaxEvictTags == 3

StartEvict(p) ==
  /\ run[p].pc = "idle"
  /\ \E remoteTags \in TagLists(EvictTagUniverse, MaxEvictTags) :
       BeginRun(p, ThePackage, remoteTags)
  /\ UNCHANGED <<store, jobs, invalidTags>>

BuildPackageEvict(p) ==
  \/ StartEvict(p) \/ SetInvalidTags(p)
  \/ FetchAll(p) \/ EvictRemove(p) \/ EvictKeep(p) \/ FetchOne(p) \/ Save(p)
  \/ GetJob(p) \/ AddJob(p)
  \/ Finish(p)

NextEvict ==
  \/ \E p \in SeqProcs : BuildPackageEvict(p)
  \/ Environment

SpecEvict == Init /\ [][NextEvict]_vars

-----------------------------------------------------------------------------
(* buildPackage over a remote that holds a tag without a version, a plain   *)
(* tag and a UPM tag of its version                                         *)

InvalidTagUniverse ==
  {[tag |-> TagPatch, commit |-> "c3"], [tag |-> Tag102, commit |-> "c1"],
   [tag |-> TagUpm102, commit |-> "c2"], [tag |-> Tag100, commit |-> "c1"]}

MaxInvalidTags == 3

StartInvalid(p) ==
  /\ run[p].pc = "idle"
  /\ \E remoteTags \in TagLists(InvalidTagUniverse, MaxInvalidTags) :
       BeginRun(p, ThePackage, remoteTags)
  /\ UNCHANGED <<store, jobs, invalidTags>>

BuildPackageInvalid(p) ==
  \/ StartInvalid(p) \/ SetInvalidTags(p)
  \/ FetchAll(p) \/ EvictRemove(p) \/ EvictKeep(p) \/ FetchOne(p) \/ Save(p)
  \/ GetJob(p) \/ AddJob(p)
  \/ Finish(p)

NextInvalid ==
  \/ \E p \in SeqProcs : BuildPackageInvalid(p)
  \/ Environment

SpecInvalid == Init /\ [][NextInvalid]_vars

-----------------------------------------------------------------------------
(* buildPackage called again and again while jobs fail and stay in the queue *)

\* a job of the queue fails for good and stays in the queue
QueueJobFails(job) ==
  /\ Quiet
  /\ BagIn(job, jobs)
  /\ ~job.failed
  /\ jobs' = (jobs (-) SetToBag({job})) (+) SetToBag({[job EXCEPT !.failed = TRUE]})
  /\ UNCHANGED <<store, invalidTags, run>>

BuildPackageLinger(p) ==
  \/ StartConc(p) \/ SetInvalidTags(p)
  \/ FetchAll(p) \/ EvictRemove(p) \/ EvictKeep(p) \/ FetchOne(p) \/ Save(p)
  \/ GetJob(p) \/ AddJob(p)
  \/ Finish(p)

NextLinger ==
  \/ \E p \in SeqProcs : BuildPackageLinger(p)
  \/ Environment
  \/ \E job \in BagToSet(jobs) : QueueJobFails(job)

SpecLinger == Init /\ [][NextLinger]_vars

-----------------------------------------------------------------------------
(* Properties *)

VersionsOf(tags) == {getVersionFromTag(tags[j].tag) : j \in 1..Len(tags)}

RowsOf(version) ==
  {r \in BagToSet(store) : r.packageName = PkgName /\ r.version = version}

JobIdOf(version) == BuildReleaseKey \o <<":">> \o PkgName \o <<":">> \o version

Queued(version) == \E job \in BagToSet(jobs) : job.id = JobIdOf(version)

NotRetryable(r) ==
  r.state = "Failed" /\ ReleaseReasonGet(r.reason) \notin RetryableReleaseReason

\* C1: when a run with a non-empty valid-tag list has completed, every version
\* of the valid-tag list has a Release row, each such release has a job with
\* its id in the queue or is Succeeded or is Failed with a non-retryable
\* reason, and the run enqueued no job for a version outside the list.
C1_CompletedRun ==
  \A p \in Procs :
    (run[p].pc = "done" /\ Len(run[p].validTags) > 0) =>
      /\ \A v \in VersionsOf(run[p].validTags) :
           /\ RowsOf(v) # {}
           /\ \A r \in RowsOf(v) :
                Queued(v) \/ r.state = "Succeeded" \/ NotRetryable(r)
      /\ \A e \in 1..Len(run[p].log) :
           \E v \in VersionsOf(run[p].validTags) : run[p].log[e].jobId = JobIdOf(v)

\* a completed run that enqueued a job for one version and left another,
\* Failed beyond retry and without a job, alone
C1_Witness ==
  \E p \in Procs :
    /\ run[p].pc = "done"
    /\ Len(run[p].log) > 0
    /\ \E v \in VersionsOf(run[p].validTags) :
         /\ ~Queued(v)
         /\ \E r \in RowsOf(v) : NotRetryable(r)

\* C2: the release store holds at most one Release per (packageName, version).
C2_OneReleasePerVersion ==
  \A r1, r2 \in BagToSet(store) :
    /\ CopiesIn(r1, store) = 1
    /\ (r1.packageName = r2.packageName /\ r1.version = r2.version) => r1 = r2

\* a run over two UPM tags of one version has looked both up
C2_Witness ==
  \E p \in Procs :
    /\ run[p].pc = "getJob"
    /\ \E a, b \in 1..Len(run[p].validTags) :
         /\ a # b
         /\ upmReTest(run[p].validTags[a].tag) /\ upmReTest(run[p].validTags[b].tag)
         /\ getVersionFromTag(run[p].validTags[a].tag)
              = getVersionFromTag(run[p].validTags[b].tag)
         /\ RowsOf(getVersionFromTag(run[p].validTags[a].tag)) # {}

NoDuplicateRows ==
  \A r1, r2 \in BagToSet(store) :
    /\ CopiesIn(r1, store) = 1
    /\ (r1.packageName = r2.packageName /\ r1.version = r2.version) => r1 = r2

\* C3: a run repeated with the same package and the same valid tags, with no
\* change of the store in between, leaves the store as it found it (no row
\* created, removed or modified, no duplicate) and returns the release list
\* of the run before it.
C3_ReconcileTwice ==
  \A p \in Procs :
    run[p].repeat =>
      /\ store = run[p].startStore
      /\ run[p].removed = {}
      /\ NoDuplicateRows
      /\ run[p].pc \in {"getJob", "addJob", "done"} =>
           run[p].releases = run[p].prevReleases

\* the second of two runs has returned its releases, after a first run that
\* removed a stale release and returned a Failed one
C3_Witness ==
  \E p \in Procs :
    /\ run[p].repeat
    /\ run[p].pc = "getJob"
    /\ run[p].prevRemoved # {}
    /\ Len(run[p].releases) >= 2
    /\ \E j \in 1..Len(run[p].releases) : run[p].releases[j].state = "Failed"

Stale(r, tags) ==
  /\ r.state = "Failed"
  /\ <<r.tag, r.commit>> \notin {<<tags[j].tag, tags[j].commit>> : j \in 1..Len(tags)}

Reconciling(p) == Len(run[p].validTags) > 0

\* the release a run creates for a version: from the first valid tag of it
FreshRelease(version, tags) ==
  LET j == CHOOSE a \in 1..Len(tags) :
             /\ getVersionFromTag(tags[a].tag) = version
             /\ \A b \in 1..(a - 1) : getVersionFromTag(tags[b].tag) # version
  IN  [packageName |-> PkgName, version |-> version, commit |-> tags[j].commit,
       tag |-> tags[j].tag, state |-> "Pending", reason |-> 0]

\* C7: once a run looks up or creates releases, every release that was Failed
\* with a (tag, commit) matching no valid tag has been removed, and no such
\* release is in the store; when the run goes on to schedule, each removed
\* release whose version is among the valid tags has been replaced by a fresh
\* release with the current tag and commit and the default state.
C7_StaleFailedEvicted ==
  \A p \in Procs :
    /\ (Reconciling(p) /\ run[p].pc \in {"fetchOne", "save", "getJob", "addJob", "done"}) =>
         /\ \A r \in BagToSet(run[p].startStore) :
              Stale(r, run[p].validTags) => (r \in run[p].removed /\ ~BagIn(r, store))
         /\ \A r \in BagToSet(store) : ~Stale(r, run[p].validTags)
    /\ (Reconciling(p) /\ run[p].pc \in {"getJob", "addJob", "done"}) =>
         \A r \in run[p].removed :
           r.version \in VersionsOf(run[p].validTags) =>
             RowsOf(r.version) = {FreshRelease(r.version, run[p].validTags)}

\* a run removed two stale Failed releases: the version of one is still
\* among the valid tags, the version of the other is not
C7_Witness ==
  \E p \in Procs :
    /\ run[p].pc = "done"
    /\ \E r1, r2 \in run[p].removed :
         /\ r1.version \in VersionsOf(run[p].validTags)
         /\ r2.version \notin VersionsOf(run[p].validTags)

\* C10: a step of a run leaves every release row as it is, except that the
\* eviction loop removes a stale Failed row and the save creates a row for a
\* version that has none; a release found by the lookup is returned as it is
\* in the store; the filter and the scheduling leave the store alone.
C10_StoreFrame ==
  [][\A p \in Procs :
       run'[p] # run[p] =>
         /\ \A row \in BagToSet(store) :
              \/ CopiesIn(row, store') = CopiesIn(row, store)
              \/ /\ ~BagIn(row, store')
                 /\ run[p].pc = "evict"
                 /\ Stale(row, run[p].validTags)
         /\ \A row \in BagToSet(store') :
              ~BagIn(row, store) =>
                /\ run[p].pc = "save"
                /\ RowsOf(row.version) = {}
                /\ CopiesIn(row, store') = 1
         /\ run[p].pc \notin {"evict", "save"} => store' = store
         /\ (run[p].pc = "fetchOne" /\ run'[p].pc # "save") =>
              /\ Len(run'[p].releases) = Len(run[p].releases) + 1
              /\ BagIn(run'[p].releases[Len(run'[p].releases)], store')
    ]_vars

\* a run reused a release whose commit is not the commit of the valid tag of
\* its version
C10_Witness ==
  \E p \in Procs :
    /\ run[p].pc = "done"
    /\ \E j \in 1..Len(run[p].releases) :
         /\ run[p].releases[j].commit # run[p].validTags[j].commit
         /\ run[p].releases[j].tag = run[p].validTags[j].tag
         /\ BagIn(run[p].releases[j], store)

\* the addJob calls of a call of addReleaseJobs and of the call before it
BothLogs(p) == run[p].prevLog \o run[p].log

\* C4: addReleaseJobs run twice over the same release list enqueues at most
\* one job per release across both runs, also when a release occurs twice in
\* the list; the queue never holds two jobs of one id.
C4_ScheduleTwice ==
  \A p \in Procs :
    /\ \A a, b \in 1..Len(BothLogs(p)) :
         BothLogs(p)[a].jobId = BothLogs(p)[b].jobId => a = b
    /\ \A job \in BagToSet(jobs) : CopiesIn(job, jobs) = 1

\* the second run over a list that holds one release twice has ended, and the
\* first run enqueued a job for that release
C4_Witness ==
  \E p \in Procs :
    /\ run[p].repeat
    /\ run[p].pc = "done"
    /\ run[p].releases = run[p].prevReleases
    /\ \E a, b \in 1..Len(run[p].releases) :
         /\ a # b
         /\ run[p].releases[a] = run[p].releases[b]
         /\ \E e \in 1..Len(run[p].prevLog) :
              run[p].prevLog[e].jobId = JobIdOf(run[p].releases[a].version)

\* C5: when addReleaseJobs examines a release it goes on to enqueue a job
\* with the id key:packageName:version exactly when no job with that id is
\* in the queue, the release is not Succeeded and it is not Failed with a
\* non-retryable reason; the job is then in the queue.
C5_EnqueueIff ==
  [][\A p \in Procs :
       /\ (run[p].pc = "getJob" /\ run'[p] # run[p]) =>
            LET rel == run[p].releases[run[p].k]
            IN  /\ (run'[p].pc = "addJob") <=>
                     /\ ~Queued(rel.version)
                     /\ rel.state # "Succeeded"
                     /\ ~NotRetryable(rel)
                /\ run'[p].pc = "addJob" => run'[p].jobId = JobIdOf(rel.version)
                /\ run'[p].log = run[p].log
                /\ jobs' = jobs
       /\ (run[p].pc = "addJob" /\ run'[p] # run[p]) =>
            /\ CopiesIn(NewJob(run[p].jobId), jobs')
                 = CopiesIn(NewJob(run[p].jobId), jobs) + 1
            /\ Len(run'[p].log) = Len(run[p].log) + 1
            /\ run'[p].log[Len(run'[p].log)].jobId = run[p].jobId
    ]_vars

\* two calls have ended: a Failed release with a retryable reason got its
\* job, a Failed release with a non-retryable reason has none
C5_Witness ==
  \E p \in Procs :
    /\ run[p].repeat
    /\ run[p].pc = "done"
    /\ \E a, b \in 1..Len(run[p].releases) :
         /\ run[p].releases[a].state = "Failed"
         /\ ~NotRetryable(run[p].releases[a])
         /\ \E e \in 1..Len(run[p].prevLog) :
              run[p].prevLog[e].jobId = JobIdOf(run[p].releases[a].version)
         /\ NotRetryable(run[p].releases[b])
         /\ ~Queued(run[p].releases[b].version)

\* C6: the k-th job a call of addReleaseJobs enqueues (k from 0) has delay 0
\* when k = 0 and otherwise the time now + k * delay; releases that are
\* skipped do not count.
C6_Stagger ==
  \A p \in Procs :
    \A e \in 1..Len(run[p].log) :
      run[p].log[e].delay =
        IF e = 1 THEN 0 ELSE run[p].log[e].now + (e - 1) * BuildReleaseDelay

\* a call over three releases enqueued the first and the third and skipped
\* the second
C6_Witness ==
  \E p \in Procs :
    /\ run[p].pc = "done"
    /\ Len(run[p].releases) = 3
    /\ Len(run[p].log) = 2
    /\ run[p].log[1].jobId = JobIdOf(run[p].releases[1].version)
    /\ run[p].log[2].jobId = JobIdOf(run[p].releases[3].version)
    /\ run[p].log[2].delay > 0

\* a call enqueued three jobs
C6_WitnessThree ==
  \E p \in Procs : run[p].pc = "done" /\ Len(run[p].log) = 3

\* a tag survives the prefix, semver and ignore filters of a package
Survives(t, pkg) ==
  /\ pkg.gitTagPrefix # Null => startsWith(t.tag, pkg.gitTagPrefix)
  /\ getVersionFromTag(t.tag) # Null
  /\ pkg.gitTagIgnore # Null => ~RegExpTest(pkg.gitTagIgnore, TRUE, t.tag)

Occurrences(t, tags) == Cardinality({j \in 1..Len(tags) : tags[j] = t})

InCall(p) == run[p].pc # "idle"

\* C8: for each version of the surviving tags: if a surviving tag of it is
\* UPM-tagged, the valid tags of the version are exactly its UPM-tagged
\* survivors, each once; otherwise the only valid tag of the version is its
\* first survivor in the input order.
C8_UpmWinsDedup ==
  \A p \in Procs :
    InCall(p) =>
      LET input     == run[p].remoteTags
          valid     == run[p].validTags
          survivors == {t \in Range(input) : Survives(t, run[p].pkg)}
      IN  /\ Range(valid) \subseteq survivors
          /\ \A v \in {getVersionFromTag(t.tag) : t \in survivors} :
               LET ofV   == {t \in survivors : getVersionFromTag(t.tag) = v}
                   upm   == {t \in ofV : upmReTest(t.tag)}
                   first == CHOOSE j \in 1..Len(input) :
                              /\ input[j] \in ofV
                              /\ \A b \in 1..(j - 1) : input[b] \notin ofV
               IN  /\ \A t \in ofV :
                         Occurrences(t, valid) =
                           IF upm # {}
                             THEN (IF t \in upm THEN 1 ELSE 0)
                             ELSE (IF t = input[first] THEN 1 ELSE 0)

\* a list with a plain tag first and two UPM tags of the same version after it
C8_Witness ==
  \E p \in Procs :
    /\ InCall(p)
    /\ run[p].pkg = ThePackage
    /\ Len(run[p].remoteTags) = 3
    /\ run[p].remoteTags[1].tag = Tag102
    /\ {run[p].remoteTags[2].tag, run[p].remoteTags[3].tag} = {TagUpm102, TagUPMV102}
    /\ Len(run[p].validTags) = 2

\* an input with no prefix, no ignore pattern, no UPM tag and distinct versions
PlainInput(p) ==
  /\ InCall(p)
  /\ run[p].pkg.gitTagPrefix = Null /\ run[p].pkg.gitTagIgnore = Null
  /\ \A a, b \in 1..Len(run[p].remoteTags) :
       LET s == run[p].remoteTags[a].tag
           t == run[p].remoteTags[b].tag
       IN  /\ ~upmReTest(s)
           /\ (a # b /\ getVersionFromTag(s) # Null) =>
                getVersionFromTag(s) # getVersionFromTag(t)

Parseable(tags) ==
  LET keep(x) == getVersionFromTag(x.tag) # Null
  IN  SelectSeq(tags, keep)

Unparseable(tags) ==
  LET keep(x) == getVersionFromTag(x.tag) = Null
  IN  SelectSeq(tags, keep)

\* C9 as stated: the valid tags after the reverse are the parseable tags in
\* the order of the input, and the unparseable tags are the invalid tags.
C9_AsStated ==
  \A p \in Procs :
    PlainInput(p) =>
      /\ run[p].validTags = Parseable(run[p].remoteTags)
      /\ run[p].invalidTags = Unparseable(run[p].remoteTags)

\* C9: for an input with no prefix, no ignore pattern, no UPM tag and distinct
\* versions, the valid tags after the reverse are the parseable tags in the
\* reverse of the order of the input, and the unparseable tags are the
\* invalid tags, in the order of the input; for the list of the test "simple"
\* they are releases/0.8.1-preview@5, 0.8.0-preview@6, 1.0.0@8, 1.0.2@10,
\* and patch is invalid.
C9_ReversedOrder ==
  \A p \in Procs :
    /\ PlainInput(p) =>
         /\ \A j \in 1..Len(run[p].validTags) :
              run[p].validTags[j] =
                Parseable(run[p].remoteTags)[Len(run[p].validTags) + 1 - j]
         /\ Len(run[p].validTags) = Len(Parseable(run[p].remoteTags))
         /\ run[p].invalidTags = Unparseable(run[p].remoteTags)
    /\ (PlainInput(p) /\ run[p].remoteTags = SimpleTags) =>
         /\ run[p].validTags =
              <<[tag |-> TagRel081Preview, commit |-> "0000005"],
                [tag |-> Tag080Preview, commit |-> "0000006"],
                [tag |-> Tag100, commit |-> "0000008"],
                [tag |-> Tag102, commit |-> "0000010"]>>
         /\ run[p].invalidTags = <<[tag |-> TagPatch, commit |-> "0000009"]>>

\* the list of the test "simple" has been filtered
C9_Witness ==
  \E p \in Procs :
    /\ PlainInput(p)
    /\ run[p].remoteTags = SimpleTags
    /\ Len(run[p].validTags) = 4

\* the ids of the addJob calls a call of buildPackage has made
LoggedIds(p) == {run[p].log[e].jobId : e \in 1..Len(run[p].log)}

OriginStore(p) == IF run[p].retry THEN run[p].originStore ELSE run[p].startStore
OriginJobs(p) == IF run[p].retry THEN run[p].originJobs ELSE jobs (-) AddedJobs(p)

\* the rows one call that does not throw leaves, from a store and valid tags:
\* the rows of the versions that have no stale Failed row, and a fresh row
\* for each version of the valid tags that is left without one
RowsAfterRun(rows, tags) ==
  IF Len(tags) = 0 THEN rows
  ELSE LET kept  == {r \in rows :
                       ~\E q \in rows : q.version = r.version /\ Stale(q, tags)}
           fresh == {FreshRelease(v, tags) :
                       v \in {w \in VersionsOf(tags) :
                                ~\E r \in kept : r.version = w}}
       IN  kept \cup fresh

\* the job ids one call that does not throw leaves in the queue
JobIdsAfterRun(ids, rows, tags) ==
  ids \cup {JobIdOf(r.version) :
              r \in {q \in RowsAfterRun(rows, tags) :
                       /\ q.version \in VersionsOf(tags)
                       /\ q.state # "Succeeded"
                       /\ ~NotRetryable(q)}}

JobIds == {job.id : job \in BagToSet(jobs)}

\* C12: when a call of buildPackage has completed, after any number of calls
\* with the same remote tags that threw at some step and left what they had
\* written, the rows of the store and the ids of the queue are those that one
\* call that did not throw leaves from the state the first call started
\* from, and no row and no job is there twice.
C12_RetryAfterAbort ==
  \A p \in Procs :
    run[p].pc = "done" =>
      /\ BagToSet(store) = RowsAfterRun(BagToSet(OriginStore(p)), run[p].validTags)
      /\ JobIds = JobIdsAfterRun({job.id : job \in BagToSet(OriginJobs(p))},
                                 BagToSet(OriginStore(p)), run[p].validTags)
      /\ NoDuplicateRows
      /\ \A job \in BagToSet(jobs) : CopiesIn(job, jobs) = 1

\* a call has completed without removing a row or adding a job: calls that
\* threw before it had removed a stale Failed row, saved its fresh row and
\* added its job
C12_Witness ==
  \E p \in Procs :
    /\ run[p].pc = "done"
    /\ run[p].retry
    /\ run[p].removed = {}
    /\ Len(run[p].log) = 0
    /\ \E r \in BagToSet(run[p].originStore) :
         /\ Stale(r, run[p].validTags)
         /\ r.version \in VersionsOf(run[p].validTags)
         /\ RowsOf(r.version) = {FreshRelease(r.version, run[p].validTags)}
         /\ Queued(r.version)
         /\ JobIdOf(r.version) \notin {job.id : job \in BagToSet(run[p].originJobs)}

\* C13: every release a run has removed was Failed, and its (tag, commit) is
\* not among the remote tags of the run, the list the remote returned.
C13_RemovedOnlyIfGoneUpstream ==
  \A p \in Procs :
    \A r \in run[p].removed : Stale(r, run[p].remoteTags)

\* the place of a tag in a list of tags
IndexIn(t, tags) == CHOOSE j \in 1..Len(tags) : tags[j] = t

\* the order in which filterRemoteTags puts two tags of its input on its
\* list: a UPM tag before a tag that is none, else as in the input
BuiltBefore(s, t, input) ==
  \/ upmReTest(s.tag) /\ ~upmReTest(t.tag)
  \/ /\ upmReTest(s.tag) = upmReTest(t.tag)
     /\ IndexIn(s, input) < IndexIn(t, input)

\* C14: the valid tags a run has computed hold every surviving UPM tag and
\* only surviving tags, in the reverse of the order UPM tags first, each
\* group in the order of the input; the releases the run returns follow the
\* valid tags one by one, and the jobs it adds follow the releases, the e-th
\* of them with the delay of e - 1 steps.
C14_ReverseOfConstruction ==
  \A p \in Procs :
    InCall(p) =>
      LET input == run[p].remoteTags
          valid == run[p].validTags
          rels  == run[p].releases
          log   == run[p].log
      IN  /\ run[p].pc = "setInvalidTags" =>
               /\ \A t \in Range(valid) :
                    t \in Range(input) /\ Survives(t, run[p].pkg)
               /\ \A t \in Range(input) :
                    (Survives(t, run[p].pkg) /\ upmReTest(t.tag)) => t \in Range(valid)
               /\ \A a, b \in 1..Len(valid) :
                    a < b => BuiltBefore(valid[b], valid[a], input)
          /\ Len(rels) <= Len(valid)
          /\ \A j \in 1..Len(rels) :
               rels[j].version = getVersionFromTag(valid[j].tag)
          /\ run[p].pc \in {"getJob", "addJob", "done"} => Len(rels) = Len(valid)
          /\ \A e \in 1..Len(log) :
               /\ \E j \in 1..Len(rels) : log[e].jobId = JobIdOf(rels[j].version)
               /\ \A f \in 1..(e - 1) :
                    \E i, j \in 1..Len(rels) :
                      /\ i < j
                      /\ log[f].jobId = JobIdOf(rels[i].version)
                      /\ log[e].jobId = JobIdOf(rels[j].version)
               /\ log[e].delay =
                    IF e = 1 THEN 0 ELSE log[e].now + (e - 1) * BuildReleaseDelay

\* a run over two UPM tags and a plain tag before them in the input has
\* ended: the plain tag is the last valid tag, the UPM tags are in the
\* reverse of their input order, and the job of the plain tag came second
C14_Witness ==
  \E p \in Procs :
    /\ run[p].pc = "done"
    /\ Len(run[p].remoteTags) = 3
    /\ ~upmReTest(run[p].remoteTags[1].tag)
    /\ run[p].validTags =
         <<run[p].remoteTags[1], run[p].remoteTags[3], run[p].remoteTags[2]>>
    /\ Len(run[p].log) = 2
    /\ run[p].log[1].jobId = JobIdOf(getVersionFromTag(run[p].remoteTags[1].tag))
    /\ run[p].log[2].delay > 0

\* C15: every valid tag starts with the prefix of the package, when it has
\* one, and does not match its ignore pattern, letters compared without
\* case, when it has one, UPM tags too; and every version of a tag that
\* passes the prefix, semver and ignore filters is the version of a valid
\* tag: no tag the filters drop takes the place of a tag they keep.
C15_FiltersBeforeDedup ==
  \A p \in Procs :
    InCall(p) =>
      LET pkg   == run[p].pkg
          valid == run[p].validTags
      IN  /\ \A t \in Range(valid) :
               /\ pkg.gitTagPrefix # Null => startsWith(t.tag, pkg.gitTagPrefix)
               /\ pkg.gitTagIgnore # Null => ~RegExpTest(pkg.gitTagIgnore, TRUE, t.tag)
               /\ getVersionFromTag(t.tag) # Null
          /\ \A t \in Range(run[p].remoteTags) :
               Survives(t, pkg) =>
                 \E u \in Range(valid) :
                   getVersionFromTag(u.tag) = getVersionFromTag(t.tag)

\* the ignore pattern ^upm/v drops the UPM tag UPM/v1.0.2, and the plain tag
\* 1.0.2 of the same version, after it in the input, is valid
C15_Witness ==
  \E p \in Procs :
    /\ InCall(p)
    /\ run[p].pkg.gitTagIgnore = <<"^","u","p","m","/","v">>
    /\ \E a, b \in 1..Len(run[p].remoteTags) :
         /\ a < b
         /\ run[p].remoteTags[a].tag = TagUPMV102
         /\ run[p].remoteTags[b].tag = Tag102
         /\ run[p].remoteTags[b] \in Range(run[p].validTags)
         /\ run[p].remoteTags[a] \notin Range(run[p].validTags)

\* the call has passed its await of PackageExtra.setInvalidTags
PastSetInvalidTags(p) == run[p].pc \notin {"idle", "setInvalidTags"}

\* C16: once a run has stored the invalid tags, the stored list holds the
\* remote tags of the run that are not valid tags, each once and in the order
\* of the remote list, and nothing else, whatever was stored before and also
\* when no tag is valid; each remote tag is either a valid tag or a stored
\* invalid tag, never both.
C16_InvalidTagsReplaced ==
  \A p \in Procs :
    PastSetInvalidTags(p) =>
      LET input == run[p].remoteTags
          valid == run[p].validTags
      IN  /\ Range(invalidTags) \cup Range(valid) = Range(input)
          /\ Range(invalidTags) \cap Range(valid) = {}
          /\ \A a, b \in 1..Len(invalidTags) :
               a < b => IndexIn(invalidTags[a], input) < IndexIn(invalidTags[b], input)

\* a run that found no valid tag has returned: the stored invalid tags are
\* the one remote tag, and the store holds a release of an earlier run
C16_Witness ==
  \E p \in Procs :
    /\ run[p].pc = "done"
    /\ Len(run[p].validTags) = 0
    /\ invalidTags = <<[tag |-> TagPatch, commit |-> "c3"]>>
    /\ store # EmptyBag

\* a run over three tags has stored two invalid tags: a tag without a version
\* and a plain tag whose version a UPM tag has taken
C16_WitnessTwo ==
  \E p \in Procs :
    /\ run[p].pc = "done"
    /\ Len(run[p].validTags) = 1
    /\ Len(invalidTags) = 2
    /\ Tag102 \in {invalidTags[1].tag, invalidTags[2].tag}

\* C17: a run that found no valid tag stores the invalid tags and returns:
\* none of its steps changes the store or the queue, and its step after the
\* filter is the return.
C17_NoValidTagsNoOp ==
  [][\A p \in Procs :
       (InCall(p) /\ Len(run[p].validTags) = 0 /\ run'[p] # run[p]) =>
         /\ store' = store
         /\ jobs' = jobs
         /\ run[p].pc = "setInvalidTags" =>
              /\ run'[p].pc = "done"
              /\ invalidTags' = run[p].invalidTags
              /\ run'[p].releases = <<>> /\ run'[p].log = <<>>
         /\ run[p].pc = "done" => invalidTags' = invalidTags
         /\ run[p].pc \in {"setInvalidTags", "done"}
    ]_vars

\* a run over a remote whose only tag has no version has returned; the store
\* holds a Failed release and the queue a job
C17_Witness ==
  \E p \in Procs :
    /\ run[p].pc = "done"
    /\ Len(run[p].validTags) = 0
    /\ Len(run[p].remoteTags) = 1
    /\ store = run[p].startStore
    /\ \E r \in BagToSet(store) : r.state = "Failed"
    /\ jobs # EmptyBag

\* a release the scan would give a job: Pending, or Failed for a reason that
\* is retried
WantsJob(r) ==
  \/ r.state = "Pending"
  \/ r.state = "Failed" /\ ~NotRetryable(r)

\* C18: no step of a run takes a job out of the queue or changes it, a job
\* that failed for good too; and when a run examines a release that is
\* Pending or Failed for a reason that is retried while a job of its id is in
\* the queue, failed or not, the run adds no job for it, in every run.
C18_JobLingers ==
  [][\A p \in Procs :
       run'[p] # run[p] =>
         /\ \A job \in BagToSet(jobs) : CopiesIn(job, jobs') = CopiesIn(job, jobs)
         /\ run[p].pc = "getJob" =>
              LET rel == run[p].releases[run[p].k]
              IN  (WantsJob(rel) /\ Queued(rel.version)) =>
                    /\ run'[p].pc # "addJob"
                    /\ jobs' = jobs
                    /\ run'[p].log = run[p].log
         /\ run[p].pc = "addJob" =>
              ~\E job \in BagToSet(jobs) : job.id = run[p].jobId
    ]_vars

\* a run that added no job has ended: one of its releases is Failed for a
\* reason that is retried, and the job of its id failed for good and is
\* still in the queue
C18_Witness ==
  \E p \in Procs :
    /\ run[p].pc = "done"
    /\ Len(run[p].log) = 0
    /\ \E j \in 1..Len(run[p].releases) :
         LET rel == run[p].releases[j]
         IN  /\ rel.state = "Failed"
             /\ ~NotRetryable(rel)
             /\ BagIn(rel, store)
             /\ \E job \in BagToSet(jobs) :
                  job.id = JobIdOf(rel.version) /\ job.failed

====
